---- MODULE Spec2Model ----
(***************************************************************************)
(* Account security and resource ownership of knowledge-pathways-backend. *)
(*                                                                         *)
(*   Spec      User.authenticate (app/models/user.py) called one request   *)
(*             at a time, the two function-based login handlers            *)
(*             (functions/api.py, functions/main.py) and the clock.        *)
(*   SpecConc  two User.authenticate requests for the same account, each   *)
(*             with its own session, interleaved at the awaits.            *)
(*   SpecRes   create / update / delete of pathways and content            *)
(*             (app/api/v1/endpoints/pathways.py, content.py).             *)
(*                                                                         *)
(* Time is counted in minutes.  A nullable column holds <<>> for NULL and  *)
(* <<v>> for the value v.                                                  *)
(***************************************************************************)
EXTENDS Integers, Sequences, FiniteSets, TLC

VARIABLES
    users,      \* the users table: email -> row (security columns)
    now,        \* datetime.utcnow(), in minutes
    streak,     \* history: wrong-password authenticate calls in a row, per email
    last,       \* history: the call made by the last step, with its outcome
    sessions,   \* SpecConc: per request, its position and its session's User object
    pathways,   \* the knowledge_pathways table: id -> row
    contents,   \* the learning_content table: id -> row
    next_pid,   \* the knowledge_pathways id sequence
    sb_users,   \* functions/api.py: the Supabase 'users' table, email -> row
    fb_users,   \* functions/main.py: Firebase Authentication, email -> account
    fs_docs,    \* functions/main.py: the Firestore 'users' collection (uids)
    user_ids,       \* the users table: the ids of the rows present
    enrollments,    \* the enrollments table
    subscriptions,  \* the subscriptions table
    payments,       \* the payment_verifications table
    tokens          \* the token columns of the account, and the history of values

vars == <<users, now, streak, last, sessions, pathways, contents, next_pid,
          sb_users, fb_users, fs_docs,
          user_ids, enrollments, subscriptions, payments, tokens>>
relVars == <<user_ids, enrollments, subscriptions, payments>>
fnVars == <<sb_users, fb_users, fs_docs>>
authVars == <<users, now, streak, tokens>>
resVars == <<pathways, contents, next_pid>>

----------------------------------------------------------------------------
(* Bounds of the model *)

MaxTime == 18       \* the clock stops advancing here
MaxStreak == 6      \* the streak history counter saturates here
MaxPathways == 1    \* pathways that create_pathway may insert
MaxContents == 1    \* content rows present in the table
MaxRows == 2        \* rows in enrollments, subscriptions and payments together
NumRequests == 2    \* concurrent authenticate requests
MaxTokens == 2      \* token values that may be issued

(* Program constants *)

LockThreshold == 5  \* user.py:91
LockMinutes == 15   \* user.py:93
PASSWORD_RESET_TOKEN_EXPIRE_MINUTES == 15       \* config.py:33
EMAIL_VERIFICATION_TOKEN_EXPIRE_MINUTES == 60   \* config.py:34

----------------------------------------------------------------------------
(* Values *)

None == <<>>
Some(v) == <<v>>
IsSet(x) == x # None          \* Python truthiness of a nullable DateTime
Val(x) == x[1]

Emails == {"alice", "ghost"}  \* "ghost" has no row
Registered == {"alice"}
Passwords == {"right", "wrong"}

\* hashlib.sha256(password.encode()).hexdigest(): modelled as injective on
\* Passwords, and never equal to the password itself.
hash_password(password) == <<"sha256", password>>

verify_password(password, hashed_password) ==
    hash_password(password) = hashed_password

\* app.core.password.verify_password is imported by user.py but is not part
\* of the tree; the specification asks for a comparison of hashes.
core_verify_password(password, hashed_password) ==
    hash_password(password) = hashed_password

----------------------------------------------------------------------------
(* User.authenticate *)

get_by_email(table, email) ==
    IF email \in DOMAIN table THEN Some(table[email]) ELSE None

\* user.locked_until and user.locked_until > datetime.utcnow()
LockedAt(user, t) ==
    IsSet(user.locked_until) /\ Val(user.locked_until) > t

\* Mutant of is_locked: the comparison includes the instant of expiry.
is_locked_ge(user, t) ==
    IF IsSet(user.locked_until) THEN Val(user.locked_until) >= t ELSE FALSE

\* User.is_locked, with datetime.utcnow() = t
is_locked(user, t) ==
    IF IsSet(user.locked_until) THEN Val(user.locked_until) > t ELSE FALSE

can_login(user, t) == user.is_active /\ ~is_locked(user, t)

\* Mutant of OnLocked: a blocked attempt restarts the lock window.
OnLocked_extend(user, t) ==
    [user EXCEPT !.locked_until = Some(t + LockMinutes)]

\* The locked branch returns without touching the row.
OnLocked(user, t) == user

\* Mutant of ReachedLimit: the comparison is off by one.
ReachedLimit_gt(n) == n > LockThreshold

\* if user.failed_login_attempts >= 5
ReachedLimit(n) == n >= LockThreshold

\* Mutant of OnMismatch: the lock window is not added to the time of the call.
OnMismatch_lock_now(user, t) ==
    LET n == user.failed_login_attempts + 1
        u1 == [user EXCEPT !.failed_login_attempts = n,
                           !.last_failed_login = Some(t)]
    IN  IF ReachedLimit(n)
        THEN [u1 EXCEPT !.locked_until = Some(t)]
        ELSE u1

\* The wrong-password branch, up to the commit.
OnMismatch(user, t) ==
    LET n == user.failed_login_attempts + 1
        u1 == [user EXCEPT !.failed_login_attempts = n,
                           !.last_failed_login = Some(t)]
    IN  IF ReachedLimit(n)
        THEN [u1 EXCEPT !.locked_until = Some(t + LockMinutes)]
        ELSE u1

\* Mutant of OnMatch: the reset forgets locked_until.
OnMatch_keep_lock(user, t) ==
    IF user.failed_login_attempts > 0
    THEN [user EXCEPT !.failed_login_attempts = 0,
                      !.last_login = Some(t)]
    ELSE user

\* Mutant of OnMatch: the lock is cleared but the counter is kept.
OnMatch_no_reset(user, t) ==
    IF user.failed_login_attempts > 0
    THEN [user EXCEPT !.locked_until = None,
                      !.last_login = Some(t)]
    ELSE user

\* The matching-password branch.
OnMatch(user, t) ==
    IF user.failed_login_attempts > 0
    THEN [user EXCEPT !.failed_login_attempts = 0,
                      !.locked_until = None,
                      !.last_login = Some(t)]
    ELSE user

\* The whole of authenticate on the object `user` loaded by get_by_email:
\* the object as committed, and what is returned.
Evaluate(user, password, t) ==
    IF LockedAt(user, t)
    THEN [user |-> OnLocked(user, t), ret |-> "None"]
    ELSE IF ~core_verify_password(password, user.hashed_password)
    THEN [user |-> OnMismatch(user, t), ret |-> "None"]
    ELSE [user |-> OnMatch(user, t), ret |-> "user"]

Bump(n) == IF n < MaxStreak THEN n + 1 ELSE n

authenticate(email, password) ==
    LET found == get_by_email(users, email) IN
    /\ IF ~IsSet(found)
       THEN /\ UNCHANGED <<users, streak>>
            /\ last' = [op |-> "authenticate", email |-> email,
                        password |-> password, at |-> now, found |-> FALSE,
                        ret |-> "None"]
       ELSE LET user == Val(found)
                out == Evaluate(user, password, now)
            IN  /\ users' = [users EXCEPT ![email] = out.user]
                /\ streak' = [streak EXCEPT ![email] =
                                 IF password = "right" THEN 0 ELSE Bump(@)]
                /\ last' = [op |-> "authenticate", email |-> email,
                            password |-> password, at |-> now, found |-> TRUE,
                            pre |-> user, streak |-> streak[email],
                            ret |-> out.ret]
    /\ UNCHANGED <<now, tokens, sessions, resVars, fnVars, relVars>>

\* Mutant of Persist: the counter reaches the table although the commit fails.
Persist_partial(stored, obj, commit_ok) ==
    IF commit_ok
    THEN obj
    ELSE [stored EXCEPT !.failed_login_attempts = obj.failed_login_attempts]

\* await db.commit(): the pending changes of the object are written in one
\* transaction; when the commit raises, the row stays as stored.
Persist(stored, obj, commit_ok) == IF commit_ok THEN obj ELSE stored

\* The number of db.commit() calls that one evaluation makes.
CommitsOf(user, password, t) ==
    IF LockedAt(user, t) THEN 0
    ELSE IF ~core_verify_password(password, user.hashed_password) THEN 1
    ELSE IF user.failed_login_attempts > 0 THEN 1
    ELSE 0

\* authenticate against a database whose commit may raise: the exception
\* leaves authenticate, nothing is returned.
authenticate_unreliable(email, password, commit_ok) ==
    LET found == get_by_email(users, email) IN
    /\ IF ~IsSet(found)
       THEN /\ UNCHANGED <<users, streak>>
            /\ last' = [op |-> "authenticate", email |-> email,
                        password |-> password, at |-> now, found |-> FALSE,
                        ret |-> "None"]
       ELSE LET user == Val(found)
                out == Evaluate(user, password, now)
                commits == CommitsOf(user, password, now)
                committed == commits = 0 \/ commit_ok
            IN  /\ users' = [users EXCEPT ![email] =
                                IF commits = 0
                                THEN user
                                ELSE Persist(user, out.user, commit_ok)]
                /\ UNCHANGED streak
                /\ last' = [op |-> "authenticate", email |-> email,
                            password |-> password, at |-> now, found |-> TRUE,
                            pre |-> user,
                            commits |-> commits, committed |-> committed,
                            ret |-> IF committed THEN out.ret ELSE "raised"]
    /\ UNCHANGED <<now, tokens, sessions, resVars, fnVars, relVars>>

Tick ==
    /\ now < MaxTime
    /\ now' = now + 1
    /\ last' = [op |-> "tick"]
    /\ UNCHANGED <<users, streak, tokens, sessions, resVars, fnVars, relVars>>

----------------------------------------------------------------------------
(* Verification and reset tokens.  The tree declares the columns           *)
(* (user.py:46-49) and the lifetimes (config.py:33-34); the code that      *)
(* issues and validates a token is not in it, and follows section 4.4 of   *)
(* the specification: issue stores the hash of a fresh random value with   *)
(* its expiry, validate compares the hash, checks the expiry and clears    *)
(* the stored hash on success.                                             *)

Purposes == {"password_reset", "email_verification"}

ttl(purpose) ==
    IF purpose = "password_reset"
    THEN PASSWORD_RESET_TOKEN_EXPIRE_MINUTES
    ELSE EMAIL_VERIFICATION_TOKEN_EXPIRE_MINUTES

token_hash(value) == <<"sha256", value>>

\* <purpose>_token and <purpose>_token_expires, both NULL.
NoToken == [token |-> None, expires |-> None]

\* Mutant of expired: a token never runs out.
expired_never(columns, t) == FALSE

\* The token is presented after its expiry timestamp.
expired(columns, t) == IsSet(columns.expires) /\ t > Val(columns.expires)

\* Mutant of consume: a validated token stays stored.
consume_keep(columns) == columns

\* Consuming a token clears the stored hash.
consume(columns) == NoToken

\* The value of a new token has never been issued before (it is random):
\* the values are 1, 2, ... in the order of issue.
issue(purpose) ==
    /\ tokens.issued < MaxTokens
    /\ tokens' = [tokens EXCEPT
                    ![purpose] = [token |-> Some(token_hash(tokens.issued + 1)),
                                  expires |-> Some(now + ttl(purpose))],
                    !.issued = @ + 1]
    /\ last' = [op |-> "issue", purpose |-> purpose,
                value |-> tokens.issued + 1, at |-> now]
    /\ UNCHANGED <<users, now, streak, sessions, resVars, fnVars, relVars>>

\* validate(purpose, tokenValue): the account, or Invalid.
validate(purpose, value) ==
    LET columns == tokens[purpose]
        valid == /\ columns.token = Some(token_hash(value))
                 /\ ~expired(columns, now)
    IN  /\ tokens' = IF valid
                     THEN [tokens EXCEPT ![purpose] = consume(columns),
                                         !.validated = @ \cup {value}]
                     ELSE tokens
        /\ last' = [op |-> "validate", purpose |-> purpose, value |-> value,
                    at |-> now, pre |-> tokens,
                    ret |-> IF valid THEN "account" ELSE "Invalid"]
        /\ UNCHANGED <<users, now, streak, sessions, resVars, fnVars, relVars>>

----------------------------------------------------------------------------
(* User.authenticate under concurrent requests.  get_db gives every request *)
(* its own AsyncSession, so each request works on its own User object,      *)
(* loaded by the SELECT of get_by_email; the request is suspended at that   *)
(* await and at the await of db.commit().  No row lock is taken and no      *)
(* version column is checked.                                               *)

Requests == 1..NumRequests

\* db.commit(): the UPDATE sets the columns whose value on the object
\* differs from the value loaded, and leaves the others as stored.
Commit(row, loaded, obj) ==
    [c \in DOMAIN row |-> IF obj[c] # loaded[c] THEN obj[c] ELSE row[c]]

\* await cls.get_by_email(db, email=email) returns the row as stored now.
conc_load(r, email, password) ==
    /\ sessions[r].pc = "idle"
    /\ email \in DOMAIN users
    /\ sessions' = [sessions EXCEPT ![r] =
                       [pc |-> "loaded", email |-> email, password |-> password,
                        loaded |-> users[email]]]
    /\ last' = [op |-> "load", request |-> r]
    /\ UNCHANGED <<users, now, streak, tokens, resVars, fnVars, relVars>>

\* The rest of authenticate, from the lock check to the commit and return.
conc_finish(r) ==
    /\ sessions[r].pc = "loaded"
    /\ LET ses == sessions[r]
           out == Evaluate(ses.loaded, ses.password, now)
       IN  /\ users' = [users EXCEPT ![ses.email] =
                           Commit(@, ses.loaded, out.user)]
           /\ sessions' = [sessions EXCEPT ![r] =
                              [pc |-> "done", email |-> ses.email,
                               password |-> ses.password,
                               loaded |-> ses.loaded, ret |-> out.ret]]
    /\ last' = [op |-> "finish", request |-> r]
    /\ UNCHANGED <<now, streak, tokens, resVars, fnVars, relVars>>

----------------------------------------------------------------------------
(* Pathway and content endpoints.  current_user is the User row that        *)
(* get_current_user resolves from the token; accounts are known here by    *)
(* their integer id.                                                       *)

\* Account 1 is a student, account 2 an administrator.
Callers == {1, 2}

\* users.role of the accounts that call the endpoints.
RoleOf(caller) == IF caller = 2 THEN "admin" ELSE "student"

\* KnowledgePathway.get / LearningContent.get (db, id=...): called by the
\* endpoints, not defined in the tree; the row with that id, or None.
get(table, id) == IF id \in DOMAIN table THEN Some(table[id]) ELSE None

Insert(table, id, row) ==
    [i \in DOMAIN table \cup {id} |-> IF i = id THEN row ELSE table[i]]

Delete(table, id) == [i \in DOMAIN table \ {id} |-> table[i]]

PathwayIds == 1..(MaxPathways + 1)
ContentIds == 1..(MaxContents + 1)

\* PathwayCreate bodies.
PathwayCreates ==
    {[title |-> "t1", description |-> None,
      difficulty_level |-> "beginner", estimated_duration |-> None]}

\* PathwayUpdate bodies: every field is optional.
PathwayUpdates ==
    {[title |-> None, description |-> None,
      difficulty_level |-> None, estimated_duration |-> None],
     [title |-> Some("t2"), description |-> None,
      difficulty_level |-> None, estimated_duration |-> None],
     [title |-> Some("t2"), description |-> Some("d2"),
      difficulty_level |-> Some("advanced"), estimated_duration |-> Some(8)]}

\* ContentCreate and ContentUpdate bodies.
ContentCreates ==
    {[title |-> "c1", description |-> None, content_type |-> "blog",
      content_url |-> None, pathway_id |-> 1]}

ContentUpdates ==
    {[title |-> None, description |-> None,
      content_type |-> None, content_url |-> None],
     [title |-> Some("c2"), description |-> None,
      content_type |-> None, content_url |-> None],
     [title |-> Some("c2"), description |-> Some("d2"),
      content_type |-> Some("video"), content_url |-> Some("u2")]}

\* cascaded: the number of enrollments rows that the call deleted.
Called(op, kind, caller, id, pre, status) ==
    [op |-> op, kind |-> kind, caller |-> caller, id |-> id, pre |-> pre,
     status |-> status, cascaded |-> 0]

\* The relationships that carry cascade="all, delete-orphan": the rows
\* that db.delete(parent) deletes with the parent.  The pathway_contents
\* table, which the same deletes empty of the rows of a pathway or content
\* item, is left out.
user_pathways(user_id) ==
    {p \in DOMAIN pathways : pathways[p].creator_id = user_id}

user_content(user_id) ==
    {c \in DOMAIN contents : contents[c].creator_id = user_id}

user_subscriptions(user_id) == {s \in subscriptions : s.user_id = user_id}

\* Mutant of user_payments: the relationship does not cascade.
user_payments_none(user_id) == {}

\* User.payments, joined on PaymentVerification.user_id as the other side
\* of the relationship declares.
user_payments(user_id) == {p \in payments : p.user_id = user_id}

user_enrollments(user_id) == {e \in enrollments : e.user_id = user_id}

\* Mutant of pathway_enrollments: the relationship does not cascade.
pathway_enrollments_none(pathway_id) == {}

pathway_enrollments(pathway_id) ==
    {e \in enrollments : e.pathway_id = Some(pathway_id)}

content_enrollments(content_id) ==
    {e \in enrollments : e.content_id = Some(content_id)}

subscription_payments(subscription_id) ==
    {p \in payments : p.subscription_id = Some(subscription_id)}

\* Mutant of ForeignKeysHold: verified_by is a plain integer column.
ForeignKeysHold_no_verifier(us, pw, ct, en, su, pa) ==
    /\ \A p \in DOMAIN pw : pw[p].creator_id \in us
    /\ \A c \in DOMAIN ct : ct[c].creator_id \in us
    /\ \A e \in en :
          /\ e.user_id \in us
          /\ IsSet(e.pathway_id) => Val(e.pathway_id) \in DOMAIN pw
          /\ IsSet(e.content_id) => Val(e.content_id) \in DOMAIN ct
    /\ \A s \in su : s.user_id \in us
    /\ \A p \in pa :
          /\ p.user_id \in us
          /\ IsSet(p.subscription_id) =>
                Val(p.subscription_id) \in {s.id : s \in su}

\* The ForeignKey columns: every reference names a row that is present.
\* The constraints have no ON DELETE rule, so a commit that would break
\* one raises IntegrityError and stores nothing.
ForeignKeysHold(us, pw, ct, en, su, pa) ==
    /\ \A p \in DOMAIN pw : pw[p].creator_id \in us
    /\ \A c \in DOMAIN ct : ct[c].creator_id \in us
    /\ \A e \in en :
          /\ e.user_id \in us
          /\ IsSet(e.pathway_id) => Val(e.pathway_id) \in DOMAIN pw
          /\ IsSet(e.content_id) => Val(e.content_id) \in DOMAIN ct
    /\ \A s \in su : s.user_id \in us
    /\ \A p \in pa :
          /\ p.user_id \in us
          /\ IsSet(p.subscription_id) =>
                Val(p.subscription_id) \in {s.id : s \in su}
          /\ IsSet(p.verified_by) => Val(p.verified_by) \in us

\* Mutant of create_pathway: the row is stored for a fixed account.
create_pathway_fixed_owner(caller, pathway_data) ==
    /\ next_pid <= MaxPathways
    /\ pathways' = Insert(pathways, next_pid,
                          [creator_id |-> 1,
                           title |-> pathway_data.title,
                           description |-> pathway_data.description,
                           difficulty_level |-> pathway_data.difficulty_level,
                           estimated_duration |-> pathway_data.estimated_duration])
    /\ next_pid' = next_pid + 1
    /\ last' = Called("create", "pathway", caller, next_pid, None, 200)
    /\ UNCHANGED <<authVars, sessions, contents, fnVars, relVars>>

create_pathway(caller, pathway_data) ==
    /\ next_pid <= MaxPathways
    /\ pathways' = Insert(pathways, next_pid,
                          [creator_id |-> caller,
                           title |-> pathway_data.title,
                           description |-> pathway_data.description,
                           difficulty_level |-> pathway_data.difficulty_level,
                           estimated_duration |-> pathway_data.estimated_duration])
    /\ next_pid' = next_pid + 1
    /\ last' = Called("create", "pathway", caller, next_pid, None, 200)
    /\ UNCHANGED <<authVars, sessions, contents, fnVars, relVars>>

\* Mutant of pathway_forbidden: the ownership check is missing.
pathway_forbidden_never(pathway, caller) == FALSE

\* if pathway.creator_id != current_user.id: raise 403
pathway_forbidden(pathway, caller) == pathway.creator_id # caller

\* Mutant of pathway_apply: an update with a title hands the row to the
\* other account.
pathway_apply_reassign(pathway, pathway_update) ==
    [pathway EXCEPT
        !.title = IF IsSet(pathway_update.title)
                  THEN Val(pathway_update.title) ELSE @,
        !.creator_id = IF IsSet(pathway_update.title) THEN 3 - @ ELSE @]

\* The assignments of update_pathway: a field that is not None replaces
\* the column.
pathway_apply(pathway, pathway_update) ==
    [pathway EXCEPT
        !.title = IF IsSet(pathway_update.title)
                  THEN Val(pathway_update.title) ELSE @,
        !.description = IF IsSet(pathway_update.description)
                        THEN pathway_update.description ELSE @,
        !.difficulty_level = IF IsSet(pathway_update.difficulty_level)
                             THEN Val(pathway_update.difficulty_level) ELSE @,
        !.estimated_duration = IF IsSet(pathway_update.estimated_duration)
                               THEN pathway_update.estimated_duration ELSE @]

\* Mutant of update_pathway: the ownership check comes first and a missing
\* row counts as not owned.
update_pathway_owner_first(caller, pathway_id, pathway_update) ==
    LET found == get(pathways, pathway_id) IN
    /\ IF ~IsSet(found)
       THEN /\ UNCHANGED pathways
            /\ last' = Called("update", "pathway", caller, pathway_id, found, 403)
       ELSE IF pathway_forbidden(Val(found), caller)
       THEN /\ UNCHANGED pathways
            /\ last' = Called("update", "pathway", caller, pathway_id, found, 403)
       ELSE /\ pathways' = [pathways EXCEPT ![pathway_id] =
                               pathway_apply(@, pathway_update)]
            /\ last' = Called("update", "pathway", caller, pathway_id, found, 200)
    /\ UNCHANGED <<authVars, sessions, contents, next_pid, fnVars, relVars>>

update_pathway(caller, pathway_id, pathway_update) ==
    LET found == get(pathways, pathway_id) IN
    /\ IF ~IsSet(found)
       THEN /\ UNCHANGED pathways
            /\ last' = Called("update", "pathway", caller, pathway_id, found, 404)
       ELSE IF pathway_forbidden(Val(found), caller)
       THEN /\ UNCHANGED pathways
            /\ last' = Called("update", "pathway", caller, pathway_id, found, 403)
       ELSE /\ pathways' = [pathways EXCEPT ![pathway_id] =
                               pathway_apply(@, pathway_update)]
            /\ last' = Called("update", "pathway", caller, pathway_id, found, 200)
    /\ UNCHANGED <<authVars, sessions, contents, next_pid, fnVars, relVars>>

delete_pathway(caller, pathway_id) ==
    LET found == get(pathways, pathway_id) IN
    /\ IF ~IsSet(found)
       THEN /\ UNCHANGED <<pathways, enrollments>>
            /\ last' = Called("delete", "pathway", caller, pathway_id, found, 404)
       ELSE IF pathway_forbidden(Val(found), caller)
       THEN /\ UNCHANGED <<pathways, enrollments>>
            /\ last' = Called("delete", "pathway", caller, pathway_id, found, 403)
       ELSE LET gone == pathway_enrollments(pathway_id)
                ok == ForeignKeysHold(user_ids, Delete(pathways, pathway_id),
                                      contents, enrollments \ gone,
                                      subscriptions, payments)
            IN  IF ok
                THEN /\ pathways' = Delete(pathways, pathway_id)
                     /\ enrollments' = enrollments \ gone
                     /\ last' = [Called("delete", "pathway", caller,
                                        pathway_id, found, 200)
                                    EXCEPT !.cascaded = Cardinality(gone)]
                ELSE /\ UNCHANGED <<pathways, enrollments>>
                     /\ last' = Called("delete", "pathway", caller,
                                       pathway_id, found, 500)
    /\ UNCHANGED <<authVars, sessions, contents, next_pid, fnVars,
                   user_ids, subscriptions, payments>>

\* LearningContent(...) is given description=, content_url= and pathway_id=,
\* which are no columns or attributes of the model: the declarative
\* constructor raises TypeError before db.add, and the request ends 500.
create_content(caller, content_data) ==
    /\ last' = Called("create", "content", caller, 0, None, 500)
    /\ UNCHANGED <<authVars, sessions, resVars, fnVars, relVars>>

\* Mutant of content_forbidden: the role is checked instead of the owner.
content_forbidden_unless_admin(content, caller) == RoleOf(caller) # "admin"

\* if content.creator_id != current_user.id: raise 403
content_forbidden(content, caller) == content.creator_id # caller

\* The assignments of update_content that reach the row: title and
\* content_type are columns; description and content_url are set on the
\* object only and are not part of the UPDATE.
content_apply(content, content_update) ==
    [content EXCEPT
        !.title = IF IsSet(content_update.title)
                  THEN Val(content_update.title) ELSE @,
        !.content_type = IF IsSet(content_update.content_type)
                         THEN Val(content_update.content_type) ELSE @]

update_content(caller, content_id, content_update) ==
    LET found == get(contents, content_id) IN
    /\ IF ~IsSet(found)
       THEN /\ UNCHANGED contents
            /\ last' = Called("update", "content", caller, content_id, found, 404)
       ELSE IF content_forbidden(Val(found), caller)
       THEN /\ UNCHANGED contents
            /\ last' = Called("update", "content", caller, content_id, found, 403)
       ELSE /\ contents' = [contents EXCEPT ![content_id] =
                               content_apply(@, content_update)]
            /\ last' = Called("update", "content", caller, content_id, found, 200)
    /\ UNCHANGED <<authVars, sessions, pathways, next_pid, fnVars, relVars>>

delete_content(caller, content_id) ==
    LET found == get(contents, content_id) IN
    /\ IF ~IsSet(found)
       THEN /\ UNCHANGED <<contents, enrollments>>
            /\ last' = Called("delete", "content", caller, content_id, found, 404)
       ELSE IF content_forbidden(Val(found), caller)
       THEN /\ UNCHANGED <<contents, enrollments>>
            /\ last' = Called("delete", "content", caller, content_id, found, 403)
       ELSE LET gone == content_enrollments(content_id)
                ok == ForeignKeysHold(user_ids, pathways,
                                      Delete(contents, content_id),
                                      enrollments \ gone,
                                      subscriptions, payments)
            IN  IF ok
                THEN /\ contents' = Delete(contents, content_id)
                     /\ enrollments' = enrollments \ gone
                     /\ last' = [Called("delete", "content", caller,
                                        content_id, found, 200)
                                    EXCEPT !.cascaded = Cardinality(gone)]
                ELSE /\ UNCHANGED <<contents, enrollments>>
                     /\ last' = Called("delete", "content", caller,
                                       content_id, found, 500)
    /\ UNCHANGED <<authVars, sessions, pathways, next_pid, fnVars,
                   user_ids, subscriptions, payments>>

----------------------------------------------------------------------------
(* Rows of enrollments, subscriptions and payment_verifications, and the   *)
(* deletion of a users row.  No endpoint of the tree inserts these rows or *)
(* deletes a user: the actions are the ORM operations on the models,       *)
(* db.add(row) and db.delete(user), each followed by db.commit().          *)

NullableIds(ids) == {None} \cup {Some(i) : i \in ids}

Rows == Cardinality(enrollments) + Cardinality(subscriptions)
            + Cardinality(payments)

\* Enrollment(user_id, pathway_id, content_id)
enroll(user_id, pathway_id, content_id) ==
    LET row == [user_id |-> user_id, pathway_id |-> pathway_id,
                content_id |-> content_id]
    IN  /\ Rows < MaxRows
        /\ row \notin enrollments
        /\ ForeignKeysHold(user_ids, pathways, contents,
                           enrollments \cup {row}, subscriptions, payments)
        /\ enrollments' = enrollments \cup {row}
        /\ last' = [op |-> "enroll"]
        /\ UNCHANGED <<authVars, sessions, resVars, fnVars,
                       user_ids, subscriptions, payments>>

\* Subscription(user_id): the id is the lowest one not in use.
subscribe(user_id) ==
    LET free == (1..MaxRows) \ {s.id : s \in subscriptions} IN
    /\ Rows < MaxRows
    /\ user_id \in user_ids
    /\ subscriptions' = subscriptions \cup
          {[id |-> CHOOSE i \in free : \A k \in free : i <= k,
            user_id |-> user_id]}
    /\ last' = [op |-> "subscribe"]
    /\ UNCHANGED <<authVars, sessions, resVars, fnVars,
                   user_ids, enrollments, payments>>

\* PaymentVerification(user_id, subscription_id, verified_by)
pay(user_id, subscription_id, verified_by) ==
    LET row == [user_id |-> user_id, subscription_id |-> subscription_id,
                verified_by |-> verified_by]
    IN  /\ Rows < MaxRows
        /\ row \notin payments
        /\ ForeignKeysHold(user_ids, pathways, contents, enrollments,
                           subscriptions, payments \cup {row})
        /\ payments' = payments \cup {row}
        /\ last' = [op |-> "pay"]
        /\ UNCHANGED <<authVars, sessions, resVars, fnVars,
                       user_ids, enrollments, subscriptions>>

\* db.delete(user); db.commit(): the delete cascades along User.pathways,
\* content, subscriptions, payments and enrollments, and from those along
\* the enrollments of each pathway and content and the payments of each
\* subscription.  PaymentVerification.verifier has no cascade and no
\* backref: a payment that stays keeps its verified_by.
delete_user(user_id) ==
    LET ps == user_pathways(user_id)
        cs == user_content(user_id)
        ss == user_subscriptions(user_id)
        pa == user_payments(user_id)
                \cup UNION {subscription_payments(s.id) : s \in ss}
        en == user_enrollments(user_id)
                \cup UNION {pathway_enrollments(p) : p \in ps}
                \cup UNION {content_enrollments(c) : c \in cs}
        us2 == user_ids \ {user_id}
        pw2 == [p \in DOMAIN pathways \ ps |-> pathways[p]]
        ct2 == [c \in DOMAIN contents \ cs |-> contents[c]]
        removed == [pathways |-> Cardinality(ps), contents |-> Cardinality(cs),
                    subscriptions |-> Cardinality(ss),
                    payments |-> Cardinality(pa),
                    enrollments |-> Cardinality(en)]
    IN  /\ user_id \in user_ids
        /\ IF ForeignKeysHold(us2, pw2, ct2, enrollments \ en,
                              subscriptions \ ss, payments \ pa)
           THEN /\ user_ids' = us2
                /\ pathways' = pw2
                /\ contents' = ct2
                /\ enrollments' = enrollments \ en
                /\ subscriptions' = subscriptions \ ss
                /\ payments' = payments \ pa
                /\ last' = [op |-> "delete_user", id |-> user_id,
                            status |-> "deleted", removed |-> removed]
           ELSE /\ UNCHANGED <<user_ids, pathways, contents, enrollments,
                               subscriptions, payments>>
                /\ last' = [op |-> "delete_user", id |-> user_id,
                            status |-> "IntegrityError", removed |-> removed]
        /\ UNCHANGED <<authVars, sessions, next_pid, fnVars>>

----------------------------------------------------------------------------
(* functions/api.py: register and login against the Supabase table.  The   *)
(* table is keyed by email: a second insert for an email is refused by the *)
(* database, which the handler reports as a database error.                *)

api_register(email, password) ==
    /\ IF email \in DOMAIN sb_users
       THEN /\ UNCHANGED sb_users
            /\ last' = [op |-> "api_register", email |-> email, status |-> 500]
       ELSE /\ sb_users' = [e \in DOMAIN sb_users \cup {email} |->
                               IF e = email
                               THEN [password_hash |-> hash_password(password),
                                     is_active |-> TRUE]
                               ELSE sb_users[e]]
            /\ last' = [op |-> "api_register", email |-> email, status |-> 201]
    /\ UNCHANGED <<authVars, sessions, resVars, fb_users, fs_docs, relVars>>

\* The status of the response: 200 "Login successful", 401 "Invalid email or
\* password".
api_login_status(table, email, password) ==
    IF email \in DOMAIN table
    THEN IF verify_password(password, table[email].password_hash)
         THEN 200
         ELSE 401
    ELSE 401

api_login(email, password) ==
    /\ last' = [op |-> "api_login", email |-> email, password |-> password,
                status |-> api_login_status(sb_users, email, password)]
    /\ UNCHANGED <<authVars, sessions, resVars, fnVars, relVars>>

(* functions/main.py: signup and login against Firebase Authentication.    *)
(* The uid of an account is modelled by its email.  firestore_ok is        *)
(* whether the Firestore client exists and its write succeeds.             *)

signup(email, password, firestore_ok) ==
    /\ IF email \in DOMAIN fb_users
       THEN /\ UNCHANGED <<fb_users, fs_docs>>       \* EmailAlreadyExistsError
            /\ last' = [op |-> "signup", email |-> email, status |-> 400]
       ELSE /\ fb_users' = [e \in DOMAIN fb_users \cup {email} |->
                               IF e = email
                               THEN [password_hash |-> hash_password(password)]
                               ELSE fb_users[e]]
            /\ fs_docs' = IF firestore_ok THEN fs_docs \cup {email} ELSE fs_docs
            /\ last' = [op |-> "signup", email |-> email, status |-> 201]
    /\ UNCHANGED <<authVars, sessions, resVars, sb_users, relVars>>

\* auth.get_user_by_email(email) decides the response: the submitted
\* password is read and required, and then never compared.
main_login_status(accounts, email, password) ==
    IF email \in DOMAIN accounts THEN 200 ELSE 401

main_login(email, password) ==
    /\ last' = [op |-> "main_login", email |-> email, password |-> password,
                status |-> main_login_status(fb_users, email, password)]
    /\ UNCHANGED <<authVars, sessions, resVars, fnVars, relVars>>

\* get_user_profile with a Bearer token: token_valid is whether
\* auth.verify_id_token accepts it as a token of the account `email`;
\* db_available is whether the Firestore client exists.
get_user_profile_status(accounts, docs, email, token_valid, db_available) ==
    IF ~token_valid \/ email \notin DOMAIN accounts THEN 401
    ELSE IF ~db_available THEN 500
    ELSE IF email \in docs THEN 200
    ELSE 404

get_user_profile(email, token_valid, db_available) ==
    /\ last' = [op |-> "get_user_profile", email |-> email,
                token_valid |-> token_valid, db |-> db_available,
                status |-> get_user_profile_status(fb_users, fs_docs, email,
                                                   token_valid, db_available)]
    /\ UNCHANGED <<authVars, sessions, resVars, fnVars, relVars>>

(* app/api/v1/endpoints/auth.py login, through SupabaseManager.sign_in.    *)
(* provider is what client.auth.sign_in_with_password does: it returns a   *)
(* user with a session, returns without a session, raises for bad          *)
(* credentials, or raises because the provider cannot be reached.          *)

Providers == {"session", "no_session", "bad_credentials", "unreachable"}

\* SupabaseManager.sign_in: 200 when it returns, or the status of the HTTPException raised.
\* The HTTPException(401) of the else branch is raised inside the try and
\* is caught by `except Exception` like every other exception.
sign_in(client_available, provider) ==
    IF ~client_available THEN 500
    ELSE IF provider = "session" THEN 200
    ELSE 401

\* login: an HTTPException is passed on, any other exception becomes 401.
auth_login_status(client_available, provider) ==
    sign_in(client_available, provider)

\* SupabaseManager.reset_password: False without a client or when
\* reset_password_for_email raises, True otherwise.
reset_password(client_available, provider_ok) ==
    client_available /\ provider_ok

\* request_password_reset: the HTTPException(500) of the else branch is
\* raised inside the try and caught by `except Exception`, which raises
\* HTTPException(400) in its place.
request_password_reset_status(success) ==
    IF success THEN 200 ELSE 400

request_password_reset(client_available, provider_ok) ==
    LET success == reset_password(client_available, provider_ok) IN
    /\ last' = [op |-> "request_password_reset", success |-> success,
                status |-> request_password_reset_status(success)]
    /\ UNCHANGED <<authVars, sessions, resVars, fnVars, relVars>>

auth_login(client_available, provider) ==
    /\ last' = [op |-> "auth_login", client |-> client_available,
                provider |-> provider,
                status |-> auth_login_status(client_available, provider)]
    /\ UNCHANGED <<authVars, sessions, resVars, fnVars, relVars>>

----------------------------------------------------------------------------
NewUser(active) ==
    [is_active |-> active,
     hashed_password |-> hash_password("right"),
     failed_login_attempts |-> 0,
     last_failed_login |-> None,
     locked_until |-> None,
     last_login |-> None]

\* Every account exists; nobody is enrolled, subscribed or has paid.
InitRel ==
    /\ user_ids = Callers
    /\ enrollments = {}
    /\ subscriptions = {}
    /\ payments = {}

InitRes ==
    /\ pathways = <<>>
    /\ contents = <<>>
    /\ next_pid = 1
    /\ InitRel

\* No token is stored and none has been issued.  issued and validated
\* are history: the number of values issued and the values that a
\* validation has accepted.
InitTokens ==
    tokens = [password_reset |-> NoToken, email_verification |-> NoToken,
              issued |-> 0, validated |-> {}]

InitFn ==
    /\ sb_users = <<>>
    /\ fb_users = <<>>
    /\ fs_docs = {}

Init ==
    /\ \E active \in BOOLEAN : users = [e \in Registered |-> NewUser(active)]
    /\ now = 0
    /\ streak = [e \in Registered |-> 0]
    /\ last = [op |-> "init"]
    /\ sessions = <<>>
    /\ InitRes
    /\ InitFn
    /\ InitTokens

Next ==
    \/ \E email \in Emails, password \in Passwords : authenticate(email, password)
    \/ Tick

Spec == Init /\ [][Next]_vars

\* Every login path of the repository, at one instant of the clock.
NextLogin ==
    \/ \E email \in Emails, password \in Passwords : authenticate(email, password)
    \/ \E email \in Emails, password \in Passwords : api_register(email, password)
    \/ \E email \in Emails, password \in Passwords : api_login(email, password)
    \/ \E email \in Emails, password \in Passwords, ok \in BOOLEAN :
          signup(email, password, ok)
    \/ \E email \in Emails, password \in Passwords : main_login(email, password)
    \/ \E client \in BOOLEAN, provider \in Providers : auth_login(client, provider)
    \/ \E client \in BOOLEAN, ok \in BOOLEAN : request_password_reset(client, ok)
    \/ \E email \in Emails, valid \in BOOLEAN, db \in BOOLEAN :
          get_user_profile(email, valid, db)

SpecLogin == Init /\ [][NextLogin]_vars

\* User.authenticate, one request at a time, when db.commit() may raise.
NextPersist ==
    \/ \E email \in Emails, password \in Passwords, ok \in BOOLEAN :
          authenticate_unreliable(email, password, ok)
    \/ Tick

SpecPersist == Init /\ [][NextPersist]_vars

\* Issue and validation of tokens as the clock advances.
NextToken ==
    \/ \E purpose \in Purposes : issue(purpose)
    \/ \E purpose \in Purposes, value \in 1..MaxTokens : validate(purpose, value)
    \/ Tick

SpecToken == Init /\ [][NextToken]_vars

\* Concurrent requests start from a row that sequential wrong passwords at
\* time 0 have produced: k failures, not yet locked.
FailedUser(k) ==
    [NewUser(TRUE) EXCEPT !.failed_login_attempts = k,
                          !.last_failed_login = IF k > 0 THEN Some(0) ELSE None]

InitConc ==
    /\ \E k \in 0..(LockThreshold - 1) : users = [e \in Registered |-> FailedUser(k)]
    /\ now = 0
    /\ streak = [e \in Registered |-> 0]
    /\ last = [op |-> "init"]
    /\ sessions = [r \in Requests |-> [pc |-> "idle"]]
    /\ InitRes
    /\ InitFn
    /\ InitTokens

NextConc ==
    \/ \E r \in Requests, email \in Emails, password \in Passwords :
          conc_load(r, email, password)
    \/ \E r \in Requests : conc_finish(r)
    \/ Tick

SpecConc == InitConc /\ [][NextConc]_vars

\* The content table holds rows that were not inserted through
\* create_content (which cannot insert): MaxContents rows, of any creator.
SeededContent(creator) ==
    [creator_id |-> creator, title |-> "c1", content_type |-> "blog"]

InitSeeded ==
    /\ \E active \in BOOLEAN : users = [e \in Registered |-> NewUser(active)]
    /\ now = 0
    /\ streak = [e \in Registered |-> 0]
    /\ last = [op |-> "init"]
    /\ sessions = <<>>
    /\ pathways = <<>>
    /\ next_pid = 1
    /\ \E creators \in [1..MaxContents -> Callers] :
          contents = [i \in 1..MaxContents |-> SeededContent(creators[i])]
    /\ InitRel
    /\ InitFn
    /\ InitTokens

NextRes ==
    \/ \E caller \in Callers, data \in PathwayCreates : create_pathway(caller, data)
    \/ \E caller \in Callers, id \in PathwayIds, upd \in PathwayUpdates :
          update_pathway(caller, id, upd)
    \/ \E caller \in Callers, id \in PathwayIds : delete_pathway(caller, id)
    \/ \E caller \in Callers, data \in ContentCreates : create_content(caller, data)
    \/ \E caller \in Callers, id \in ContentIds, upd \in ContentUpdates :
          update_content(caller, id, upd)
    \/ \E caller \in Callers, id \in ContentIds : delete_content(caller, id)

SpecRes == InitSeeded /\ [][NextRes]_vars

\* Creation and deletion of rows by the accounts that exist.
NextCascade ==
    \/ \E caller \in user_ids, data \in PathwayCreates : create_pathway(caller, data)
    \/ \E caller \in user_ids, id \in PathwayIds : delete_pathway(caller, id)
    \/ \E caller \in user_ids, id \in ContentIds : delete_content(caller, id)
    \/ \E u \in user_ids, p \in PathwayIds : enroll(u, Some(p), None)
    \/ \E u \in user_ids, c \in ContentIds : enroll(u, None, Some(c))
    \/ \E u \in user_ids : subscribe(u)
    \/ \E u \in user_ids, s \in NullableIds(1..MaxRows), v \in NullableIds(Callers) :
          pay(u, s, v)
    \/ \E u \in Callers : delete_user(u)

\* One content row is present, of any creator.
InitCascade ==
    /\ users = [e \in Registered |-> NewUser(TRUE)]
    /\ now = 0
    /\ streak = [e \in Registered |-> 0]
    /\ last = [op |-> "init"]
    /\ sessions = <<>>
    /\ pathways = <<>>
    /\ next_pid = 1
    /\ \E creator \in Callers : contents = [i \in {1} |-> SeededContent(creator)]
    /\ InitRel
    /\ InitFn
    /\ InitTokens

SpecCascade == InitCascade /\ [][NextCascade]_vars

----------------------------------------------------------------------------
(* Properties of User.authenticate and of the login handlers *)

\* The last step was an authenticate call that found the account.
AuthCall == last.op = "authenticate" /\ last.found

WrongPassword == ~core_verify_password(last.password, last.pre.hashed_password)

\* The lock of the row as loaded had been set and had passed at the call.
LockExpired ==
    IsSet(last.pre.locked_until) /\ Val(last.pre.locked_until) <= last.at

\* C1: once 5 or more wrong-password calls in a row have been made for an
\* account, the account is locked at the time of the call that completes
\* them; and every call made while locked_until is still ahead is rejected,
\* whatever the password.
C1_LockedAfterFiveFailures ==
    AuthCall =>
        /\ (WrongPassword /\ last.streak + 1 >= LockThreshold)
               => LockedAt(users[last.email], last.at)
        /\ LockedAt(last.pre, last.at) => last.ret = "None"

\* A correct password is rejected, after five wrong ones, by the lock.
C1_Witness ==
    /\ AuthCall
    /\ ~WrongPassword
    /\ last.streak >= LockThreshold
    /\ LockedAt(last.pre, last.at)
    /\ last.ret = "None"

\* C2: on each of the three login paths a login succeeds only if the
\* submitted password matches the credential stored for the email, and a
\* mismatching password for an existing account gives the invalid outcome.
C2_SuccessOnlyOnMatchingPassword ==
    /\ last.op = "authenticate" =>
          /\ last.ret = "user" => (last.found /\ ~WrongPassword)
          /\ (last.found /\ WrongPassword) => last.ret = "None"
    /\ last.op = "api_login" =>
          LET matches == /\ last.email \in DOMAIN sb_users
                         /\ verify_password(last.password,
                                            sb_users[last.email].password_hash)
          IN  /\ last.status = 200 => matches
              /\ ~matches => last.status = 401
    /\ last.op = "main_login" =>
          LET matches == /\ last.email \in DOMAIN fb_users
                         /\ verify_password(last.password,
                                            fb_users[last.email].password_hash)
          IN  /\ last.status = 200 => matches
              /\ ~matches => last.status = 401

\* C7: a call with the correct password, made once locked_until has passed,
\* returns the account and leaves failed_login_attempts = 0 and
\* locked_until cleared.
C7_CorrectPasswordAfterExpiry ==
    (AuthCall /\ LockExpired /\ ~WrongPassword) =>
        /\ last.ret = "user"
        /\ users[last.email].failed_login_attempts = 0
        /\ users[last.email].locked_until = None

C7_Witness ==
    /\ AuthCall
    /\ LockExpired
    /\ ~WrongPassword
    /\ last.ret = "user"

\* C8: the first call evaluated after locked_until has passed starts from
\* a counter of 0: one wrong password there leaves failed_login_attempts
\* at 1 and the account unlocked.
C8_CounterResetOnExpiry ==
    (AuthCall /\ LockExpired /\ WrongPassword) =>
        /\ users[last.email].failed_login_attempts = 1
        /\ ~LockedAt(users[last.email], last.at)

\* C9: authenticate never returns the account when is_active is false.
C9_InactiveNeverSucceeds ==
    (AuthCall /\ ~last.pre.is_active) => last.ret # "user"

\* C10: a call made while locked_until > now leaves every column of the
\* row as it was, whether the password is right or wrong.
C10_BlockedCallChangesNothing ==
    (AuthCall /\ LockedAt(last.pre, last.at)) => users[last.email] = last.pre

C10_Witness ==
    /\ AuthCall
    /\ LockedAt(last.pre, last.at)
    /\ WrongPassword
    /\ last.ret = "None"

\* C6: two wrong-password calls for the same unlocked account that run
\* concurrently (both loaded the same row before either committed) leave
\* the stored counter 2 higher than the one they loaded.
C6_ConcurrentFailuresBothCounted ==
    \A r1, r2 \in Requests :
        ( /\ r1 # r2
          /\ sessions[r1].pc = "done"
          /\ sessions[r2].pc = "done"
          /\ sessions[r1].email = sessions[r2].email
          /\ sessions[r1].loaded = sessions[r2].loaded
          /\ ~IsSet(sessions[r1].loaded.locked_until)
          /\ ~core_verify_password(sessions[r1].password,
                                   sessions[r1].loaded.hashed_password)
          /\ ~core_verify_password(sessions[r2].password,
                                   sessions[r2].loaded.hashed_password) )
        => users[sessions[r1].email].failed_login_attempts
              = sessions[r1].loaded.failed_login_attempts + 2

----------------------------------------------------------------------------
(* Properties of the pathway and content endpoints *)

\* The last step was an update or delete of a row that existed.
Mutation == last.op \in {"update", "delete"} /\ IsSet(last.pre)

Table(kind) == IF kind = "pathway" THEN pathways ELSE contents

\* C3: an administrator may update and delete a pathway or content row
\* whose creator_id is another account.
C3_AdministratorAllowed ==
    ( /\ Mutation
      /\ RoleOf(last.caller) = "admin"
      /\ Val(last.pre).creator_id # last.caller )
    => last.status = 200

\* C4: update and delete by a caller who is neither the creator nor an
\* administrator are answered 403, and the row is left exactly as it was.
C4_NonOwnerForbidden ==
    ( /\ Mutation
      /\ Val(last.pre).creator_id # last.caller
      /\ RoleOf(last.caller) # "admin" )
    => /\ last.status = 403
       /\ get(Table(last.kind), last.id) = last.pre

C4_Witness ==
    /\ Mutation
    /\ last.kind = "pathway"
    /\ Val(last.pre).creator_id # last.caller
    /\ RoleOf(last.caller) # "admin"
    /\ last.status = 403

----------------------------------------------------------------------------
(* Further properties of User.authenticate *)

\* C11: the outcome of a call rejected by the lock differs, for the caller,
\* from the outcome of a wrong password on the same account unlocked.
C11_LockedDistinguishable ==
    (AuthCall /\ LockedAt(last.pre, last.at)) =>
        \A password \in Passwords :
            ~core_verify_password(password, last.pre.hashed_password) =>
                last.ret # Evaluate([last.pre EXCEPT !.locked_until = None],
                                    password, last.at).ret

\* C12: from failed_login_attempts = 0 and no lock, the 1st to 4th wrong
\* password in a row are rejected and leave locked_until unset; the 5th is
\* rejected and sets locked_until to the time of the call plus 15 minutes.
C12_FifthFailureLocks ==
    ( /\ AuthCall
      /\ WrongPassword
      /\ ~IsSet(last.pre.locked_until)
      /\ last.pre.failed_login_attempts < LockThreshold )
    => /\ last.ret = "None"
       /\ users[last.email].locked_until =
             IF last.pre.failed_login_attempts + 1 < LockThreshold
             THEN None
             ELSE Some(last.at + LockMinutes)

C12_Witness ==
    /\ AuthCall
    /\ WrongPassword
    /\ ~IsSet(last.pre.locked_until)
    /\ last.pre.failed_login_attempts = LockThreshold - 1
    /\ last.streak = LockThreshold - 1
    /\ users[last.email].locked_until = Some(last.at + LockMinutes)

\* C13: after a call that returned the account, failed_login_attempts is 0.
C13_SuccessResetsCounter ==
    (AuthCall /\ last.ret = "user") =>
        users[last.email].failed_login_attempts = 0

C13_Witness ==
    /\ AuthCall
    /\ last.ret = "user"
    /\ last.pre.failed_login_attempts > 0
    /\ users[last.email].failed_login_attempts = 0

\* C14: every call that returned the account stored last_login as the time
\* of the call, also when failed_login_attempts was 0 before it.
C14_SuccessRecordsLastLogin ==
    (AuthCall /\ last.ret = "user") =>
        users[last.email].last_login = Some(last.at)

\* C15: whenever locked_until is set, it is strictly later than
\* last_failed_login.
C15_LockAfterLastFailure ==
    \A e \in DOMAIN users :
        IsSet(users[e].locked_until) =>
            /\ IsSet(users[e].last_failed_login)
            /\ Val(users[e].locked_until) > Val(users[e].last_failed_login)

\* The account was locked again after a first lock had passed.
C15_Witness ==
    \E e \in DOMAIN users :
        /\ IsSet(users[e].locked_until)
        /\ users[e].failed_login_attempts > LockThreshold
        /\ Val(users[e].last_failed_login) >= LockMinutes

\* C16: a login with an email that has no account and a login with a wrong
\* password for an existing account give the caller the same outcome, on
\* authenticate and on both function-based handlers.  (authenticate
\* returns None when get_by_email finds nothing.)
C16_UnknownEmailLikeWrongPassword ==
    /\ (AuthCall /\ WrongPassword) => last.ret = "None"
    /\ ( /\ last.op = "api_login"
         /\ last.email \in DOMAIN sb_users
         /\ ~verify_password(last.password, sb_users[last.email].password_hash) )
       => last.status = api_login_status(<<>>, last.email, last.password)
    /\ ( /\ last.op = "main_login"
         /\ last.email \in DOMAIN fb_users
         /\ ~verify_password(last.password, fb_users[last.email].password_hash) )
       => last.status = main_login_status(<<>>, last.email, last.password)

\* C19: a wrong-password evaluation makes at most one commit and is stored
\* all or nothing: the counter, last_failed_login and (at the threshold)
\* locked_until are all stored, or, when the commit fails, the row is as
\* it was.
C19_AllOrNothing ==
    (AuthCall /\ WrongPassword /\ ~LockedAt(last.pre, last.at)) =>
        /\ last.commits <= 1
        /\ IF last.committed
           THEN /\ users[last.email].failed_login_attempts
                      = last.pre.failed_login_attempts + 1
                /\ users[last.email].last_failed_login = Some(last.at)
                /\ users[last.email].failed_login_attempts >= LockThreshold
                      => users[last.email].locked_until
                            = Some(last.at + LockMinutes)
           ELSE users[last.email] = last.pre

\* The commit of the failure that reaches the threshold fails.
C19_Witness ==
    /\ AuthCall
    /\ WrongPassword
    /\ ~LockedAt(last.pre, last.at)
    /\ last.pre.failed_login_attempts = LockThreshold - 1
    /\ ~last.committed
    /\ users[last.email] = last.pre

\* C20: when the identity provider cannot be used (no client) or throws
\* during sign-in, login answers with a status other than the one it gives
\* for bad credentials.
C20_InfrastructureFailureDistinct ==
    ( /\ last.op = "auth_login"
      /\ (~last.client \/ last.provider = "unreachable") )
    => last.status # auth_login_status(TRUE, "bad_credentials")

----------------------------------------------------------------------------
(* Properties of the cascades *)

C18_NoEnrollmentOfDeletedItem ==
    /\ \A e \in enrollments :
          /\ IsSet(e.pathway_id) => Val(e.pathway_id) \in DOMAIN pathways
          /\ IsSet(e.content_id) => Val(e.content_id) \in DOMAIN contents
    /\ (last.op = "delete" /\ last.status \notin {403, 404}) =>
          /\ last.status = 200
          /\ last.id \notin DOMAIN Table(last.kind)

\* delete_pathway has removed a pathway together with an enrollment in it.
C18_Witness ==
    /\ last.op = "delete"
    /\ last.kind = "pathway"
    /\ last.status = 200
    /\ last.cascaded > 0
    /\ last.id \notin DOMAIN pathways
    /\ \A e \in enrollments : e.pathway_id # Some(last.id)

----------------------------------------------------------------------------
(* Ownership and lookup of pathways and content *)

\* C23: no step changes the creator_id of a pathway or content row that
\* is in its table before and after the step.
C23_OwnerNeverChanges ==
    [][ /\ \A p \in DOMAIN pathways \cap DOMAIN pathways' :
              pathways'[p].creator_id = pathways[p].creator_id
        /\ \A c \in DOMAIN contents \cap DOMAIN contents' :
              contents'[c].creator_id = contents[c].creator_id ]_vars

\* An update by the owner has changed the row.
C23_Witness ==
    /\ last.op = "update"
    /\ last.status = 200
    /\ Table(last.kind)[last.id] # Val(last.pre)
    /\ Table(last.kind)[last.id].creator_id = Val(last.pre).creator_id

\* C24: a row stored by a create call has the caller as its creator_id.
C24_CreatorIsCaller ==
    (last.op = "create" /\ last.status = 200) =>
        /\ last.id \in DOMAIN Table(last.kind)
        /\ Table(last.kind)[last.id].creator_id = last.caller

\* The administrator account has created a pathway of its own.
C24_Witness ==
    /\ last.op = "create"
    /\ last.status = 200
    /\ last.caller = 2
    /\ pathways[last.id].creator_id = 2

\* C30: an update or delete of an id that is not in the table answers 404
\* to every caller and changes no row.
C30_MissingIdIsNotFound ==
    [][ (last' # last /\ last'.op \in {"update", "delete"} /\ ~IsSet(last'.pre)) =>
            /\ last'.status = 404
            /\ UNCHANGED <<pathways, contents, enrollments>> ]_vars

\* A caller has asked to delete a missing pathway while the table holds
\* a pathway of that caller.
C30_Witness ==
    /\ last.op = "delete"
    /\ last.kind = "pathway"
    /\ ~IsSet(last.pre)
    /\ last.status = 404
    /\ \E p \in DOMAIN pathways : pathways[p].creator_id = last.caller

----------------------------------------------------------------------------
(* The lock of an account *)

\* C26: after calls made one at a time, locked_until is set exactly when
\* failed_login_attempts is at least 5.
C26_LockedIffThreshold ==
    \A e \in DOMAIN users :
        IsSet(users[e].locked_until)
            <=> users[e].failed_login_attempts >= LockThreshold

\* A lock that has run out is still stored, with the counter at 5.
C26_Witness ==
    \E e \in DOMAIN users :
        /\ IsSet(users[e].locked_until)
        /\ Val(users[e].locked_until) < now
        /\ users[e].failed_login_attempts = LockThreshold

\* C29: is_locked is true of the row and instant of an authenticate call
\* exactly when the call returns None and leaves the row as it was; at
\* the instant locked_until both count the account as unlocked.
C29_IsLockedMatchesAuthenticate ==
    AuthCall =>
        /\ is_locked(last.pre, last.at)
              <=> (last.ret = "None" /\ users[last.email] = last.pre)
        /\ last.pre.locked_until = Some(last.at) =>
              /\ ~is_locked(last.pre, last.at)
              /\ users[last.email] # last.pre \/ last.ret = "user"

\* authenticate is called at the instant locked_until.
C29_Witness ==
    /\ AuthCall
    /\ last.pre.locked_until = Some(last.at)
    /\ ~is_locked(last.pre, last.at)

----------------------------------------------------------------------------
(* Password reset request and profile lookup *)

\* C25: when supabase_reset_password returns false, request_password_reset
\* answers 500.
C25_ResetFailureIs500 ==
    (last.op = "request_password_reset" /\ ~last.success) => last.status = 500

\* C27: once signup has created the account (201), get_user_profile with a
\* valid token of that account, Firestore being available, answers 200.
C27_ProfileAfterSignup ==
    ( /\ last.op = "get_user_profile"
      /\ last.email \in DOMAIN fb_users
      /\ last.token_valid
      /\ last.db )
    => last.status = 200

----------------------------------------------------------------------------
(* Properties of the tokens *)

\* C21: a validation of a value that an earlier validation has accepted
\* fails with Invalid.
C21_TokenSingleUse ==
    (last.op = "validate" /\ last.value \in last.pre.validated) =>
        last.ret = "Invalid"

\* A reset token is presented again, before its expiry, after it has been
\* accepted once.
C21_Witness ==
    /\ last.op = "validate"
    /\ last.purpose = "password_reset"
    /\ last.value \in last.pre.validated
    /\ last.at < PASSWORD_RESET_TOKEN_EXPIRE_MINUTES
    /\ last.ret = "Invalid"

\* C22: a validation of the stored token after its expiry timestamp fails
\* with Invalid, also when the token has never been validated.
C22_ExpiredTokenInvalid ==
    ( /\ last.op = "validate"
      /\ IsSet(last.pre[last.purpose].expires)
      /\ last.at > Val(last.pre[last.purpose].expires) )
    => last.ret = "Invalid"

\* The stored reset token, never validated, is presented after its expiry.
C22_Witness ==
    /\ last.op = "validate"
    /\ last.purpose = "password_reset"
    /\ last.pre.password_reset.token = Some(token_hash(last.value))
    /\ last.value \notin last.pre.validated
    /\ last.at > Val(last.pre.password_reset.expires)
    /\ last.ret = "Invalid"

====
